---- MODULE Spec2Model ----
(***************************************************************************)
(* reniced: a daemon that polls /proc, finds the pids that are new since   *)
(* the previous poll, matches their command line and owner against an      *)
(* ordered list of rules and sets the nice value of the first match.       *)
(*                                                                         *)
(* Strings that are searched or sliced (command lines, patterns, binary    *)
(* paths) are sequences of one-character strings.  Strings that are only   *)
(* compared for equality (user names, rule names, matcher types) are       *)
(* TLA+ strings.  An Option<T> is a sequence of length 0 (None) or 1       *)
(* (Some(v)).                                                              *)
(***************************************************************************)
EXTENDS Integers, Sequences, FiniteSets, TLC

VARIABLES pc, previous_pids, current_pids, added, config, procs,
          command, owner, matched, seen, dispatched, prevScan,
          adjusted, readjusted, slept,
          lastPid, adj, log, failedAdj, history, etc, home, first_cycle

vars == <<pc, previous_pids, current_pids, added, config, procs,
          command, owner, matched, seen, dispatched, prevScan,
          adjusted, readjusted, slept,
          lastPid, adj, log, failedAdj, history, etc, home, first_cycle>>

\* What the matcher on its own leaves alone.
loopVars == <<previous_pids, current_pids, added, procs, seen, dispatched,
              prevScan, adjusted, readjusted, slept,
              lastPid, adj, log, failedAdj, history, etc, home, first_cycle>>

\* What a step of the loop that reads no process leaves alone.
stepVars == <<command, owner, matched, seen, lastPid, adj>>

(***************************************************************************)
(* Bounds.                                                                 *)
(***************************************************************************)
MaxPid == 2
MaxRules == 2
MaxCmdLen == 3
MaxPatLen == 2

(***************************************************************************)
(* Option<T>.                                                              *)
(***************************************************************************)
None == <<>>

Some(v) == <<v>>

IsSome(o) == o # <<>>

Unwrap(o) == o[1]

Min(S) == CHOOSE x \in S : \A y \in S : x <= y

(***************************************************************************)
(* str: characters, whitespace, find, trim_start, starts_with.             *)
(***************************************************************************)
NUL == "NUL"

Alphabet == {"a", " "}

Whitespace == {" ", "\t", "\n"}

StrUpTo(n) == UNION {[1..k -> Alphabet] : k \in 0..n}

\* str::starts_with: p is a literal prefix of s.
starts_with(s, p) == Len(p) <= Len(s) /\ SubSeq(s, 1, Len(p)) = p

\* str::find: the (0-based) index of the first occurrence of p in s.
find(s, p) ==
    LET occ == {i \in 0..(Len(s) - Len(p)) : SubSeq(s, i + 1, i + Len(p)) = p}
    IN  IF occ = {} THEN None ELSE Some(Min(occ))

RECURSIVE trim_start(_)
\* str::trim_start: drop the leading whitespace characters.
trim_start(s) ==
    IF s = <<>> \/ s[1] \notin Whitespace THEN s ELSE trim_start(Tail(s))

\* &cmd[i..]: the suffix of s that starts at 0-based index i.
SliceFrom(s, i) == SubSeq(s, i + 1, Len(s))

(***************************************************************************)
(* matcher.rs                                                              *)
(***************************************************************************)
\* get_pattern if the space were appended to a match_string as well.
get_pattern_with_space(process_config) ==
    IF IsSome(process_config.matcher.match_string)
    THEN Unwrap(process_config.matcher.match_string) \o <<" ">>
    ELSE process_config.bin \o <<" ">>

\* The pattern of a rule: its match_string, or its bin and one space.
get_pattern(process_config) ==
    IF IsSome(process_config.matcher.match_string)
    THEN Unwrap(process_config.matcher.match_string)
    ELSE process_config.bin \o <<" ">>

\* strip_path_from_command if the pattern were looked for at the start of the
\* command only.
strip_path_from_command_at_start(cmd, pattern) ==
    IF starts_with(cmd, pattern) THEN trim_start(cmd) ELSE cmd

strip_path_from_command(cmd, pattern) ==
    LET first_space_index == find(cmd, pattern)
    IN  IF IsSome(first_space_index)
        THEN trim_start(SliceFrom(cmd, Unwrap(first_space_index)))
        ELSE cmd

\* prepare_command if the path were stripped whatever strip_path says.
prepare_command_always_strip(cmd, pattern, matcher) ==
    strip_path_from_command(cmd, pattern)

\* The command the pattern is compared with: stripped when strip_path is
\* Some(true), as it is otherwise.
prepare_command(cmd, pattern, matcher) ==
    LET strip == IF IsSome(matcher.strip_path) THEN Unwrap(matcher.strip_path)
                 ELSE FALSE
    IN  IF strip THEN strip_path_from_command(cmd, pattern) ELSE cmd

\* match_simple if the pattern were compared with the command as it is.
match_simple_unprepared(cmd, pattern, matcher) ==
    starts_with(cmd, pattern)

\* The prepared command starts with the pattern.
match_simple(cmd, pattern, matcher) ==
    LET cmd_to_check == prepare_command(cmd, pattern, matcher)
    IN  starts_with(cmd_to_check, pattern)

\* is_command_matched without the owner filter.
is_command_matched_any_owner(cmd, process_owner, process_config) ==
    LET matcher == process_config.matcher
        pattern == get_pattern(process_config)
    IN  IF matcher.type = "simple"
        THEN match_simple(cmd, pattern, matcher)
        ELSE FALSE

\* is_command_matched if every matcher type were handled as "simple".
is_command_matched_any_type(cmd, process_owner, process_config) ==
    IF /\ IsSome(process_config.owner)
       /\ Unwrap(process_config.owner) # process_owner
    THEN FALSE
    ELSE match_simple(cmd, get_pattern(process_config), process_config.matcher)

is_command_matched(cmd, process_owner, process_config) ==
    IF /\ IsSome(process_config.owner)
       /\ Unwrap(process_config.owner) # process_owner
    THEN FALSE
    ELSE LET matcher == process_config.matcher
             pattern == get_pattern(process_config)
         IN  IF matcher.type = "simple"
             THEN match_simple(cmd, pattern, matcher)
             ELSE FALSE

RECURSIVE match_from(_, _, _, _)
\* The for loop of match_command, from rule i on: the index of the rule
\* returned, or None.
match_from(cmd, process_owner, cfg, i) ==
    IF i > Len(cfg) THEN None
    ELSE IF is_command_matched(cmd, process_owner, cfg[i]) THEN Some(i)
    ELSE match_from(cmd, process_owner, cfg, i + 1)

Max(S) == CHOOSE x \in S : \A y \in S : x >= y

\* match_command if the loop kept going after a match: the last match wins.
match_command_last(cmd, process_owner, cfg) ==
    LET hits == {i \in 1..Len(cfg) : is_command_matched(cmd, process_owner, cfg[i])}
    IN  IF hits = {} THEN None ELSE Some(Max(hits))

match_command(cmd, process_owner, cfg) == match_from(cmd, process_owner, cfg, 1)

(***************************************************************************)
(* Inputs of the matcher: rules, rule sets, command lines, owners.         *)
(***************************************************************************)
Bin == <<"a">>

MatcherConfig(type, match_string, strip_path) ==
    [type |-> type, match_string |-> match_string, strip_path |-> strip_path]

ProcessConfig(name, own, bin, nice, matcher) ==
    [name |-> name, owner |-> own, bin |-> bin, nice |-> nice, matcher |-> matcher]

StripOptions == {None, Some(TRUE), Some(FALSE)}

\* Every rule over the bounded patterns: any owner filter, any matcher type.
AllRules ==
    {ProcessConfig("r", o, Bin, 10, MatcherConfig(t, ms, sp)) :
        o \in {None, Some("alice"), Some("Alice")},
        t \in {"simple", "regex", "Simple"},
        ms \in {None} \cup {Some(s) : s \in StrUpTo(MaxPatLen)},
        sp \in StripOptions}

\* The rules that rule sets of two and more rules are built from.
CoreRules ==
    {ProcessConfig("r", o, Bin, 10, MatcherConfig(t, ms, sp)) :
        o \in {None, Some("alice")},
        t \in {"simple", "regex"},
        ms \in {None, Some(<<"a">>)},
        sp \in {None, Some(TRUE)}}

RuleSets ==
    {<<>>} \cup {<<r>> : r \in AllRules}
           \cup UNION {[1..k -> CoreRules] : k \in 2..MaxRules}

Owners == {"alice", "bob"}

\* Scenario B of the specification.
ScenarioBPattern ==
    <<"j","a","v","a"," ","-","j","a","r"," ","a","p","p",".","j","a","r">>

ScenarioBCommand ==
    <<"/","o","p","t","/","a","p","p","/">> \o ScenarioBPattern \o <<" ","-","-","x">>

ScenarioBRule ==
    ProcessConfig("java", None, <<"/","o","p","t","/","a","p","p","/","j","a","v","a">>,
                  10, MatcherConfig("simple", Some(ScenarioBPattern), Some(TRUE)))

Commands == StrUpTo(MaxCmdLen)

(***************************************************************************)
(* The matcher on its own: any rule set, command line and owner.           *)
(***************************************************************************)
LoopIdle ==
    /\ previous_pids = {} /\ current_pids = {} /\ added = {}
    /\ procs = [p \in 1..MaxPid |-> None]
    /\ seen = None /\ dispatched = {} /\ prevScan = {}
    /\ adjusted = {} /\ readjusted = {}
    /\ slept = TRUE
    /\ lastPid = None /\ adj = None /\ log = <<>>
    /\ failedAdj = {} /\ history = <<>>
    /\ etc = None /\ home = None
    /\ first_cycle = TRUE

MatchInit ==
    /\ pc = "match"
    /\ \/ config \in RuleSets /\ command \in {Some(c) : c \in Commands}
       \/ config = <<ScenarioBRule>> /\ command = Some(ScenarioBCommand)
    /\ owner \in {Some(o) : o \in Owners}
    /\ matched = None
    /\ LoopIdle

MatchCommand ==
    /\ pc = "match"
    /\ matched' = match_command(Unwrap(command), Unwrap(owner), config)
    /\ pc' = "matched"
    /\ UNCHANGED <<config, command, owner>>
    /\ UNCHANGED loopVars

MatchNext == MatchCommand

SpecMatch == MatchInit /\ [][MatchNext]_vars

(***************************************************************************)
(* The operating system: the process table under /proc and the user        *)
(* database.                                                               *)
(***************************************************************************)
Pids == 1..MaxPid

Uids == {0, 1000, 4242}

\* getpwuid: uid 4242 has no entry in the user database.
Passwd == [u \in Uids |->
             IF u = 0 THEN Some("root")
             ELSE IF u = 1000 THEN Some("alice")
             ELSE None]

\* Raw /proc/<pid>/cmdline contents: every argument is followed by NUL.
Cmdlines == {<<"a", NUL>>}

Process(cmdline, ruid, euid, nice) ==
    [cmdline |-> cmdline, ruid |-> ruid, euid |-> euid, nice |-> nice]

\* The pids that have a directory under /proc.
Visible == {p \in Pids : IsSome(procs[p])}

\* The configuration the daemon runs with in the loop.
LoopConfig ==
    << ProcessConfig("user-a", Some("alice"), Bin, 10, MatcherConfig("simple", None, None)),
       ProcessConfig("user-b", Some("alice"), Bin, 5, MatcherConfig("simple", None, None)) >>

(***************************************************************************)
(* monitor.rs: the snapshot source.                                        *)
(***************************************************************************)
Ok(v) == [ok |-> TRUE, val |-> v]

Err == [ok |-> FALSE, val |-> {}]

\* readable: read_dir("/proc") succeeded.  failed: the entries whose read
\* returned an error; filter_map(Result::ok) drops them.  Every other entry
\* named by digits is inserted; visible holds the entries named by digits
\* only.
get_running_processes(readable, visible, failed) ==
    IF ~readable THEN Err ELSE Ok(visible \ failed)

RECURSIVE replace(_, _, _)
\* str::replace of one character by another.
replace(s, from, to) ==
    IF s = <<>> THEN <<>>
    ELSE <<IF s[1] = from THEN to ELSE s[1]>> \o replace(Tail(s), from, to)

\* p: the process the pid names (None: no such process).  readOk: the read
\* of /proc/<pid>/cmdline succeeded.
get_command_for_pid(p, readOk) ==
    IF IsSome(p) /\ readOk THEN Some(replace(Unwrap(p).cmdline, NUL, " ")) ELSE None

\* The "Uid:" line of /proc/<pid>/status, split at whitespace: real,
\* effective, saved and filesystem uid.
UidLine(p) == <<"Uid:", p.ruid, p.euid, p.euid, p.euid>>

\* Iterator::nth: the element at 0-based position n.
nth(seq, n) == IF n + 1 <= Len(seq) THEN Some(seq[n + 1]) ELSE None

\* get_owner_for_pid if it took the second number of the Uid: line, the
\* effective uid.
get_owner_for_pid_effective(p, readOk, lookupOk) ==
    IF ~(IsSome(p) /\ readOk) THEN None
    ELSE LET uid_str == nth(UidLine(Unwrap(p)), 2)
         IN  IF ~IsSome(uid_str) THEN None
             ELSE IF lookupOk
                  THEN LET user == Passwd[Unwrap(uid_str)]
                       IN  IF IsSome(user) THEN Some(Unwrap(user)) ELSE Some("root")
                  ELSE None

\* readOk: /proc/<pid>/status was opened and read.  lookupOk: User::from_uid
\* returned Ok.
get_owner_for_pid(p, readOk, lookupOk) ==
    IF ~(IsSome(p) /\ readOk) THEN None
    ELSE LET uid_str == nth(UidLine(Unwrap(p)), 1)
         IN  IF ~IsSome(uid_str) THEN None
             ELSE IF lookupOk
                  THEN LET user == Passwd[Unwrap(uid_str)]
                       IN  IF IsSome(user) THEN Some(Unwrap(user)) ELSE Some("root")
                  ELSE None

(***************************************************************************)
(* adjuster.rs                                                             *)
(***************************************************************************)
\* Log events: <<level, message>>.
Event(level, msg) == <<level, msg>>

\* setpriority(PRIO_PROCESS, pid, nice_value) of Linux: the nice value of the
\* process afterwards.  The kernel clamps the value to -20..19 and returns 0;
\* it fails (setOk false: ESRCH, EPERM, EACCES) without changing anything.
Clamp(n) == IF n < -20 THEN -20 ELSE IF n > 19 THEN 19 ELSE n

setpriority(p, nice_value, setOk) ==
    IF setOk THEN Clamp(nice_value) ELSE Unwrap(p).nice

\* Process::new(pid): procOk is false when /proc/<pid> cannot be opened.
get_process(p, procOk) == IF IsSome(p) /\ procOk THEN p ELSE None

\* process.stat(): statOk is false when /proc/<pid>/stat cannot be read.
get_current_nice_value(process, statOk) ==
    IF statOk THEN Some(Unwrap(process).nice) ELSE None

\* The outcome of adjust_nice_value: the call made, its result, the log.
adjust_nice_value(p, pid, nice_value, setOk) ==
    [ok |-> setOk,
     call |-> Some(<<pid, nice_value>>),
     nice |-> Some(setpriority(p, nice_value, setOk)),
     log |-> <<Event("debug", "attempting to set nice value")>> \o
             (IF setOk
              THEN <<Event("info", "successfully adjusted nice value")>>
              ELSE <<Event("error", "failed to adjust nice value")>>)]

\* try_check_and_adjust_nice_value if setpriority were called whenever the
\* current nice value was read, equal to the expected one or not.
try_check_and_adjust_nice_value_always(p, pid, process_config, procOk, statOk, setOk) ==
    LET process == get_process(p, procOk)
        current_nice == IF IsSome(process)
                        THEN get_current_nice_value(process, statOk) ELSE None
    IN  IF ~IsSome(current_nice)
        THEN [ok |-> FALSE, read |-> None, call |-> None, nice |-> None, log |-> <<>>]
        ELSE LET a == adjust_nice_value(p, pid, process_config.nice, setOk)
             IN  [ok |-> a.ok, read |-> current_nice, call |-> a.call,
                  nice |-> a.nice, log |-> a.log]

\* The outcome of try_check_and_adjust_nice_value for the process p that pid
\* names: ok (the Result), read (the nice value read), call (the setpriority
\* call made), nice (the nice value of the process afterwards, None when
\* there is no process), log (the events emitted).
try_check_and_adjust_nice_value(p, pid, process_config, procOk, statOk, setOk) ==
    LET process == get_process(p, procOk)
        start == <<Event("debug", "fetching process details"),
                   Event("debug", "attempting to access process")>>
    IN  IF ~IsSome(process)
        THEN [ok |-> FALSE, read |-> None, call |-> None,
              nice |-> IF IsSome(p) THEN Some(Unwrap(p).nice) ELSE None,
              log |-> start]
        ELSE LET current_nice == get_current_nice_value(process, statOk)
                 fetch == start \o <<Event("debug", "fetching current nice value"),
                                     Event("debug", "fetching stat information")>>
             IN  IF ~IsSome(current_nice)
                 THEN [ok |-> FALSE, read |-> None, call |-> None,
                       nice |-> Some(Unwrap(p).nice), log |-> fetch]
                 ELSE LET expected_nice == process_config.nice
                          cur == fetch \o <<Event("debug", "current nice value")>>
                      IN  IF Unwrap(current_nice) # expected_nice
                          THEN LET a == adjust_nice_value(p, pid, expected_nice, setOk)
                               IN  [ok |-> a.ok, read |-> current_nice,
                                    call |-> a.call, nice |-> a.nice,
                                    log |-> cur \o <<Event("info", "nice mismatch, adjusting"),
                                                     Event("debug", "adjusting nice value")>>
                                                \o a.log]
                          ELSE [ok |-> TRUE, read |-> current_nice, call |-> None,
                                nice |-> Some(Unwrap(p).nice),
                                log |-> cur \o <<Event("debug", "already has the correct nice value")>>]

\* check_and_adjust_nice_value: the error of the attempt is logged, never
\* returned.
check_and_adjust_nice_value(p, pid, process_config, procOk, statOk, setOk) ==
    LET r == try_check_and_adjust_nice_value(p, pid, process_config, procOk, statOk, setOk)
    IN  [r EXCEPT !.log = <<Event("debug", "starting check and adjust")>> \o r.log
                          \o (IF r.ok THEN <<>>
                              ELSE <<Event("warn", "failed to check and adjust nice value")>>)
                          \o <<Event("debug", "finished check and adjust")>>]

(***************************************************************************)
(* monitor.rs: event_loop.                                                 *)
(***************************************************************************)
Init ==
    /\ pc = "scan"
    /\ config = LoopConfig
    /\ command = None /\ owner = None /\ matched = None
    /\ previous_pids = {} /\ current_pids = {} /\ added = {}
    /\ procs \in [Pids -> {None}]
    /\ seen = None /\ dispatched = {} /\ prevScan = {}
    /\ adjusted = {} /\ readjusted = {}
    /\ slept = TRUE
    /\ lastPid = None /\ adj = None /\ log = <<>>
    /\ failedAdj = {} /\ history = <<>>
    /\ etc = None /\ home = None
    /\ first_cycle = TRUE

\* ScanErr if the error ended the loop (`return Err(e)` for `continue`).
ScanErr_fatal ==
    /\ pc = "scan"
    /\ ~get_running_processes(FALSE, Visible, {}).ok
    /\ log' = <<Event("error", "error fetching running processes")>>
    /\ slept' = FALSE
    /\ pc' = "exit"
    /\ UNCHANGED <<previous_pids, current_pids, added, config, procs, dispatched,
                   prevScan, adjusted, readjusted, failedAdj, history,
                   etc, home, first_cycle>>
    /\ UNCHANGED stepVars

\* get_running_processes() returned Err: log and `continue`.
ScanErr ==
    /\ pc = "scan"
    /\ ~get_running_processes(FALSE, Visible, {}).ok
    /\ log' = <<Event("error", "error fetching running processes")>>
    /\ slept' = FALSE
    /\ pc' = "scan"
    /\ UNCHANGED <<previous_pids, current_pids, added, config, procs, dispatched,
                   prevScan, adjusted, readjusted, failedAdj, history,
                   etc, home, first_cycle>>
    /\ UNCHANGED stepVars

\* ScanOk if the first snapshot were taken as the baseline: the processes
\* found running when the daemon starts are not dispatched.
ScanOk_baseline ==
    /\ pc = "scan"
    /\ \E failed \in SUBSET Visible :
         LET r == get_running_processes(TRUE, Visible, failed)
         IN  /\ r.ok
             /\ current_pids' = r.val
             /\ added' = IF first_cycle THEN {} ELSE r.val \ previous_pids
             /\ failedAdj' = failedAdj \cap r.val
    /\ prevScan' = current_pids
    /\ dispatched' = {}
    /\ slept' = FALSE
    /\ log' = <<>>
    /\ pc' = "dispatch"
    /\ UNCHANGED <<previous_pids, config, procs, adjusted, readjusted, history,
                   etc, home, first_cycle>>
    /\ UNCHANGED stepVars

\* ScanOk if every scanned pid were dispatched, seen before or not.
ScanOk_no_diff ==
    /\ pc = "scan"
    /\ \E failed \in SUBSET Visible :
         LET r == get_running_processes(TRUE, Visible, failed)
         IN  /\ r.ok
             /\ current_pids' = r.val
             /\ added' = r.val
             /\ failedAdj' = failedAdj \cap r.val
    /\ prevScan' = current_pids
    /\ dispatched' = {}
    /\ slept' = FALSE
    /\ log' = <<>>
    /\ pc' = "dispatch"
    /\ UNCHANGED <<previous_pids, config, procs, adjusted, readjusted, history,
                   etc, home, first_cycle>>
    /\ UNCHANGED stepVars

\* get_running_processes() returned Ok(pids): added = current \ previous.
\* failedAdj keeps the pids that every scan since their failure has held.
ScanOk ==
    /\ pc = "scan"
    /\ \E failed \in SUBSET Visible :
         LET r == get_running_processes(TRUE, Visible, failed)
         IN  /\ r.ok
             /\ current_pids' = r.val
             /\ added' = r.val \ previous_pids
             /\ failedAdj' = failedAdj \cap r.val
    /\ prevScan' = current_pids
    /\ dispatched' = {}
    /\ slept' = FALSE
    /\ log' = <<>>
    /\ pc' = "dispatch"
    /\ UNCHANGED <<previous_pids, config, procs, adjusted, readjusted, history,
                   etc, home, first_cycle>>
    /\ UNCHANGED stepVars

\* dispatch_log if the loop logged nothing about a match.
dispatch_log_silent(cmd, own, m) ==
    IF ~IsSome(cmd) THEN <<Event("warn", "failed to get command string")>>
    ELSE IF ~IsSome(own) THEN <<Event("warn", "failed to get owner")>>
    ELSE <<>>

\* The events the body of `for pid in added` emits itself: a warning when the
\* command or the owner is missing, a debug line when a rule matches.
dispatch_log(cmd, own, m) ==
    IF ~IsSome(cmd) THEN <<Event("warn", "failed to get command string")>>
    ELSE IF ~IsSome(own) THEN <<Event("warn", "failed to get owner")>>
    ELSE IF IsSome(m) THEN <<Event("debug", "matches config")>>
    ELSE <<>>

\* dispatch_pid if the adjuster were given the last rule of the list.
dispatch_pid_last_rule(p, pid, cfg, cmdOk, statusOk, lookupOk, procOk, statOk, setOk) ==
    LET cmd == get_command_for_pid(p, cmdOk)
        own == IF IsSome(cmd) THEN get_owner_for_pid(p, statusOk, lookupOk) ELSE None
        m == IF IsSome(cmd) /\ IsSome(own)
             THEN match_command(Unwrap(cmd), Unwrap(own), cfg) ELSE None
        r == IF IsSome(m)
             THEN Some(check_and_adjust_nice_value(p, pid, cfg[Len(cfg)], procOk, statOk, setOk))
             ELSE None
    IN  [command |-> cmd, owner |-> own, matched |-> m,
         adj |-> IF IsSome(r)
                 THEN Some([pid |-> pid, target |-> cfg[Len(cfg)].nice,
                            ok |-> Unwrap(r).ok, read |-> Unwrap(r).read,
                            call |-> Unwrap(r).call])
                 ELSE None,
         nice |-> IF IsSome(r) THEN Unwrap(r).nice ELSE None,
         log |-> dispatch_log(cmd, own, m) \o (IF IsSome(r) THEN Unwrap(r).log ELSE <<>>)]

\* One iteration of `for pid in added` for the process p that pid names.
\* The owner is read only when the command was; the rules are matched only
\* when both were; the adjuster is invoked only when a rule matched
\* (pid.parse::<i32>() succeeds for every name made of digits that /proc
\* holds).
dispatch_pid(p, pid, cfg, cmdOk, statusOk, lookupOk, procOk, statOk, setOk) ==
    LET cmd == get_command_for_pid(p, cmdOk)
        own == IF IsSome(cmd) THEN get_owner_for_pid(p, statusOk, lookupOk) ELSE None
        m == IF IsSome(cmd) /\ IsSome(own)
             THEN match_command(Unwrap(cmd), Unwrap(own), cfg) ELSE None
        r == IF IsSome(m)
             THEN Some(check_and_adjust_nice_value(p, pid, cfg[Unwrap(m)], procOk, statOk, setOk))
             ELSE None
    IN  [command |-> cmd, owner |-> own, matched |-> m,
         adj |-> IF IsSome(r)
                 THEN Some([pid |-> pid, target |-> cfg[Unwrap(m)].nice,
                            ok |-> Unwrap(r).ok, read |-> Unwrap(r).read,
                            call |-> Unwrap(r).call])
                 ELSE None,
         nice |-> IF IsSome(r) THEN Unwrap(r).nice ELSE None,
         log |-> dispatch_log(cmd, own, m) \o (IF IsSome(r) THEN Unwrap(r).log ELSE <<>>)]

\* The read or call that fails first while a pid is handled, if any: what
\* comes after a failure is not executed.
Faults == {"none", "cmdline", "status", "passwd", "proc", "stat", "setpriority"}

\* One iteration of `for pid in added`, in any order (HashSet iteration).
Dispatch(pid) ==
    /\ pc = "dispatch"
    /\ pid \in added
    /\ \E fault \in Faults :
         LET p == procs[pid]
             d == dispatch_pid(p, pid, config, fault # "cmdline", fault # "status",
                               fault # "passwd", fault # "proc", fault # "stat",
                               fault # "setpriority")
             called == IsSome(d.adj) /\ IsSome(Unwrap(d.adj).call)
         IN  /\ command' = d.command
             /\ owner' = d.owner
             /\ matched' = d.matched
             /\ adj' = d.adj
             /\ log' = d.log
             /\ seen' = p
             /\ procs' = IF IsSome(d.nice)
                         THEN [procs EXCEPT ![pid] = Some([Unwrap(p) EXCEPT !.nice = Unwrap(d.nice)])]
                         ELSE procs
             /\ adjusted' = IF called THEN adjusted \cup {pid} ELSE adjusted
             /\ readjusted' = IF called /\ pid \in adjusted
                              THEN readjusted \cup {pid} ELSE readjusted
             /\ failedAdj' = IF IsSome(d.adj) /\ ~Unwrap(d.adj).ok
                             THEN failedAdj \cup {pid} ELSE failedAdj \ {pid}
    /\ lastPid' = Some(pid)
    /\ added' = added \ {pid}
    /\ dispatched' = dispatched \cup {pid}
    /\ UNCHANGED <<pc, previous_pids, current_pids, config, prevScan, slept, history,
                   etc, home, first_cycle>>

\* EndDispatch if a pid whose adjustment failed were left out of
\* previous_pids, to be tried again.
EndDispatch_retry ==
    /\ pc = "dispatch"
    /\ added = {}
    /\ previous_pids' = current_pids \ (failedAdj \cap dispatched)
    /\ command' = None /\ owner' = None /\ matched' = None /\ seen' = None
    /\ lastPid' = None /\ adj' = None /\ log' = <<>>
    /\ pc' = "sleep"
    /\ UNCHANGED <<current_pids, added, config, procs, dispatched, prevScan,
                   adjusted, readjusted, slept, failedAdj, history,
                   etc, home, first_cycle>>

\* The for loop is over: previous_pids = current_pids.
EndDispatch ==
    /\ pc = "dispatch"
    /\ added = {}
    /\ previous_pids' = current_pids
    /\ command' = None /\ owner' = None /\ matched' = None /\ seen' = None
    /\ lastPid' = None /\ adj' = None /\ log' = <<>>
    /\ pc' = "sleep"
    /\ UNCHANGED <<current_pids, added, config, procs, dispatched, prevScan,
                   adjusted, readjusted, slept, failedAdj, history,
                   etc, home, first_cycle>>

\* tokio::time::sleep(3 s) returned: a cycle whose scan succeeded is over,
\* and no later cycle is the first one.
Sleep ==
    /\ pc = "sleep"
    /\ slept' = TRUE
    /\ dispatched' = {} /\ prevScan' = {}
    /\ first_cycle' = FALSE
    /\ pc' = "scan"
    /\ UNCHANGED <<previous_pids, current_pids, added, config, procs,
                   adjusted, readjusted, log, failedAdj, history,
                   etc, home>>
    /\ UNCHANGED stepVars

(***************************************************************************)
(* The environment.  Processes start and exit between two polls; a process *)
(* that goes away during a poll shows as a failed read in Dispatch.        *)
(***************************************************************************)
\* Real and effective uid of a process: a set-uid-root program run by alice,
\* and a program run under a uid without a passwd entry.
Credentials == {<<1000, 0>>, <<4242, 4242>>}

Spawn(pid) ==
    /\ pc = "scan"
    /\ ~IsSome(procs[pid])
    /\ \E c \in Cmdlines, cred \in Credentials :
         procs' = [procs EXCEPT ![pid] = Some(Process(c, cred[1], cred[2], 0))]
    /\ adjusted' = adjusted \ {pid}
    /\ readjusted' = readjusted \ {pid}
    /\ UNCHANGED <<pc, previous_pids, current_pids, added, config, dispatched,
                   prevScan, slept, log, failedAdj, history,
                   etc, home, first_cycle>>
    /\ UNCHANGED stepVars

Exit(pid) ==
    /\ pc = "scan"
    /\ IsSome(procs[pid])
    /\ procs' = [procs EXCEPT ![pid] = None]
    /\ adjusted' = adjusted \ {pid}
    /\ readjusted' = readjusted \ {pid}
    /\ UNCHANGED <<pc, previous_pids, current_pids, added, config, dispatched,
                   prevScan, slept, log, failedAdj, history,
                   etc, home, first_cycle>>
    /\ UNCHANGED stepVars

Next ==
    \/ ScanErr
    \/ ScanOk
    \/ \E pid \in Pids : Dispatch(pid)
    \/ EndDispatch
    \/ Sleep
    \/ \E pid \in Pids : Spawn(pid)
    \/ \E pid \in Pids : Exit(pid)

Spec == Init /\ [][Next]_vars

(***************************************************************************)
(* The adjuster on its own: one process, one rule, invoked again and again *)
(* with the same target.  ProcessConfig.nice is an i32 that no code checks *)
(* against -20..19.                                                        *)
(***************************************************************************)
MaxInvocations == 2

NiceValues == {-20, 0, 19}

Targets == {-25, -20, 0, 10, 19, 25}

AdjustInit ==
    /\ pc = "adjust"
    /\ \E n \in NiceValues :
         procs = [p \in Pids |-> IF p = 1 THEN Some(Process(<<"a", NUL>>, 1000, 1000, n))
                                 ELSE None]
    /\ \E t \in Targets :
         config = <<ProcessConfig("user-a", Some("alice"), Bin, t,
                                  MatcherConfig("simple", None, None))>>
    /\ command = None /\ owner = None /\ matched = None
    /\ previous_pids = {} /\ current_pids = {} /\ added = {}
    /\ seen = None /\ dispatched = {} /\ prevScan = {}
    /\ adjusted = {} /\ readjusted = {}
    /\ slept = TRUE
    /\ lastPid = None /\ adj = None /\ log = <<>>
    /\ failedAdj = {} /\ history = <<>>
    /\ etc = None /\ home = None
    /\ first_cycle = TRUE

\* One call of Adjuster::check_and_adjust_nice_value(1, config[1]); history
\* keeps, for every call, the read or call that failed, the nice value of the
\* process before and after, and what the adjuster read and called.
Adjust ==
    /\ pc = "adjust"
    /\ Len(history) < MaxInvocations
    /\ \E fault \in {"none", "proc", "stat", "setpriority"} :
         LET p == procs[1]
             r == check_and_adjust_nice_value(p, 1, config[1], fault # "proc",
                                              fault # "stat", fault # "setpriority")
             a == [pid |-> 1, target |-> config[1].nice, ok |-> r.ok,
                   read |-> r.read, call |-> r.call]
         IN  /\ adj' = Some(a)
             /\ log' = r.log
             /\ seen' = p
             /\ procs' = [procs EXCEPT ![1] = Some([Unwrap(p) EXCEPT !.nice = Unwrap(r.nice)])]
             /\ adjusted' = IF IsSome(r.call) THEN adjusted \cup {1} ELSE adjusted
             /\ readjusted' = IF IsSome(r.call) /\ 1 \in adjusted
                              THEN readjusted \cup {1} ELSE readjusted
             /\ history' = Append(history, [fault |-> fault,
                                            before |-> Unwrap(p).nice, ok |-> r.ok,
                                            read |-> r.read, call |-> r.call,
                                            after |-> Unwrap(r.nice)])
    /\ lastPid' = Some(1)
    /\ UNCHANGED <<pc, previous_pids, current_pids, added, config, command, owner,
                   matched, dispatched, prevScan, slept, failedAdj, etc, home, first_cycle>>

AdjustNext == Adjust

SpecAdjust == AdjustInit /\ [][AdjustNext]_vars

(***************************************************************************)
(* config.rs.  A Config is the sequence of its rules (Config.process); a   *)
(* file is None when it cannot be read or parsed.                          *)
(***************************************************************************)
\* Config::default(): no rule.
Default == <<>>

\* The indexes of the rules of process that bear the name.
Named(process, name) == {i \in 1..Len(process) : process[i].name = name}

\* The body of `for local_process in local.process` if the rule found were
\* replaced as a whole, bin included.
merge_process_whole(merged_config, local_process) ==
    LET found == Named(merged_config, local_process.name)
    IN  IF found # {}
        THEN [merged_config EXCEPT ![Min(found)] = local_process]
        ELSE Append(merged_config, local_process)

\* The body of `for local_process in local.process` in Config::merge:
\* iter_mut().find() gives the first rule of that name; its owner, nice and
\* matcher are overwritten; without such a rule the local one is pushed.
merge_process(merged_config, local_process) ==
    LET found == Named(merged_config, local_process.name)
    IN  IF found # {}
        THEN [merged_config EXCEPT ![Min(found)] =
                 [@ EXCEPT !.owner = local_process.owner,
                           !.nice = local_process.nice,
                           !.matcher = local_process.matcher]]
        ELSE Append(merged_config, local_process)

RECURSIVE merge_from(_, _, _)
merge_from(merged_config, local, i) ==
    IF i > Len(local) THEN merged_config
    ELSE merge_from(merge_process(merged_config, local[i]), local, i + 1)

\* Config::merge(global, local).
merge(global, local) == merge_from(global, local, 1)

\* Config::load_global(): the content of /etc/reniced/config.yaml.
load_global(file) == IF IsSome(file) THEN Ok(Unwrap(file)) ELSE Err

\* Config::load_local(user): no file is read for "lost+found".
load_local(user, file) ==
    IF user = "lost+found" THEN Ok(Default)
    ELSE IF IsSome(file) THEN Ok(Unwrap(file)) ELSE Err

\* load_and_prepare_local_config(user): a rule without owner gets the user.
load_and_prepare_local_config(user, file) ==
    LET local_config == load_local(user, file)
    IN  IF ~local_config.ok THEN Err
        ELSE Ok([i \in 1..Len(local_config.val) |->
                    IF IsSome(local_config.val[i].owner) THEN local_config.val[i]
                    ELSE [local_config.val[i] EXCEPT !.owner = Some(user)]])

\* The fold of load_all over the home directories from the i-th on; a user
\* whose file cannot be loaded is left out.
RECURSIVE fold_merge(_, _, _)
fold_merge(merged_config, home_dirs, i) ==
    IF i > Len(home_dirs) THEN merged_config
    ELSE LET local_config == load_and_prepare_local_config(home_dirs[i].user,
                                                           home_dirs[i].file)
         IN  fold_merge(IF local_config.ok THEN merge(merged_config, local_config.val)
                        ELSE merged_config,
                        home_dirs, i + 1)

\* Config::load_all(): home_dirs is None when /home cannot be listed.
load_all(global_file, home_dirs) ==
    LET g == load_global(global_file)
        global_config == IF g.ok THEN g.val ELSE Default
    IN  IF ~IsSome(home_dirs) THEN Err
        ELSE Ok(fold_merge(global_config, Unwrap(home_dirs), 1))

(***************************************************************************)
(* The loader on its own: any global file, any files of the users.         *)
(***************************************************************************)
RuleNames == {"x", "y"}

\* Rules of a global file: no owner.
GlobalRules ==
    {ProcessConfig(n, None, <<"g">>, nice, MatcherConfig("simple", None, None)) :
        n \in RuleNames, nice \in {0, 1}}

\* Rules of a user's file: with or without owner, another bin, nice and
\* matcher than the global rules have.
LocalRules ==
    {ProcessConfig(n, o, <<"l">>, 5, MatcherConfig("simple", Some(<<"a">>), Some(TRUE))) :
        n \in RuleNames \cup {"z"}, o \in {None, Some("bob")}}

SeqsUpTo(S, n) == UNION {[1..k -> S] : k \in 0..n}

GlobalFiles == {None} \cup {Some(f) : f \in SeqsUpTo(GlobalRules, MaxRules)}

LocalFiles == {None} \cup {Some(f) : f \in SeqsUpTo(LocalRules, MaxRules)}

\* The file of a second user: unreadable, or one rule.
SecondFiles ==
    {None,
     Some(<<ProcessConfig("x", None, <<"s">>, 7, MatcherConfig("regex", None, None))>>),
     Some(<<ProcessConfig("w", Some("alice"), <<"s">>, 7, MatcherConfig("regex", None, None))>>)}

\* /home: unreadable, empty, one user, or two users.
Homes ==
    {None, Some(<<>>)}
    \cup {Some(<<[user |-> "alice", file |-> f]>>) : f \in LocalFiles}
    \cup {Some(<<[user |-> "alice", file |-> f], [user |-> u, file |-> f2]>>) :
            f \in LocalFiles, u \in {"carol", "lost+found"}, f2 \in SecondFiles}

LoadInit ==
    /\ pc = "load"
    /\ etc \in GlobalFiles
    /\ home \in Homes
    /\ first_cycle = TRUE
    /\ config = Default
    /\ command = None /\ owner = None /\ matched = None
    /\ previous_pids = {} /\ current_pids = {} /\ added = {}
    /\ procs = [p \in Pids |-> None]
    /\ seen = None /\ dispatched = {} /\ prevScan = {}
    /\ adjusted = {} /\ readjusted = {}
    /\ slept = TRUE
    /\ lastPid = None /\ adj = None /\ log = <<>>
    /\ failedAdj = {} /\ history = <<>>

\* Config::merge(global, local) of the global file and the first user's file.
Merge ==
    /\ pc = "load"
    /\ IsSome(etc)
    /\ IsSome(home) /\ Len(Unwrap(home)) >= 1 /\ IsSome(Unwrap(home)[1].file)
    /\ config' = merge(Unwrap(etc), Unwrap(Unwrap(home)[1].file))
    /\ pc' = "merged"
    /\ UNCHANGED <<command, owner, matched, etc, home, first_cycle>>
    /\ UNCHANGED <<previous_pids, current_pids, added, procs, seen, dispatched, prevScan,
                   adjusted, readjusted, slept, lastPid, adj, log, failedAdj, history>>

\* config = Config::load_all().unwrap_or_default(), as event_loop starts.
LoadAll ==
    /\ pc = "load"
    /\ LET r == load_all(etc, home)
       IN  config' = IF r.ok THEN r.val ELSE Default
    /\ pc' = "loaded"
    /\ UNCHANGED <<command, owner, matched, etc, home, first_cycle>>
    /\ UNCHANGED <<previous_pids, current_pids, added, procs, seen, dispatched, prevScan,
                   adjusted, readjusted, slept, lastPid, adj, log, failedAdj, history>>

LoadNext == Merge \/ LoadAll

SpecLoad == LoadInit /\ [][LoadNext]_vars

(***************************************************************************)
(* One pid of the diff set on its own: any arguments of the process, any   *)
(* single rule that has the binary path "a".                               *)
(***************************************************************************)
MaxArgs == 2

\* Arguments of a process: the binary path of the rules, a longer name that
\* begins with it, and a name that goes on with a space after it.
Args == {<<"a">>, <<"a", "a">>, <<"a", " ", "a">>}

Argvs == SeqsUpTo(Args, MaxArgs)

RECURSIVE cmdline_of(_)
\* The content of /proc/<pid>/cmdline for the arguments argv: every
\* argument followed by NUL (nothing for a kernel thread).
cmdline_of(argv) ==
    IF argv = <<>> THEN <<>>
    ELSE argv[1] \o <<NUL>> \o cmdline_of(Tail(argv))

DispatchRules ==
    {ProcessConfig("r", o, Bin, 10, MatcherConfig("simple", ms, sp)) :
        o \in {None, Some("alice")},
        ms \in {None, Some(<<"a">>)},
        sp \in StripOptions}

\* The first scan has found pid 1; the for loop is about to handle it.
DispatchInit ==
    /\ pc = "dispatch"
    /\ config \in {<<r>> : r \in DispatchRules}
    /\ \E argv \in Argvs, cred \in Credentials :
         procs = [p \in Pids |->
                    IF p = 1 THEN Some(Process(cmdline_of(argv), cred[1], cred[2], 0))
                    ELSE None]
    /\ command = None /\ owner = None /\ matched = None
    /\ previous_pids = {} /\ current_pids = {1} /\ added = {1}
    /\ seen = None /\ dispatched = {} /\ prevScan = {}
    /\ adjusted = {} /\ readjusted = {}
    /\ slept = FALSE
    /\ lastPid = None /\ adj = None /\ log = <<>>
    /\ failedAdj = {} /\ history = <<>>
    /\ etc = None /\ home = None
    /\ first_cycle = TRUE

DispatchNext ==
    \/ \E pid \in Pids : Dispatch(pid)
    \/ EndDispatch

SpecDispatch == DispatchInit /\ [][DispatchNext]_vars

(***************************************************************************)
(* Properties of the matcher (SpecMatch).                                  *)
(***************************************************************************)
\* Rule r matches as the specification words it: the owner filter passes,
\* the kind is "simple" and the prepared command starts with the pattern.
RuleMatches(cmd, own, r) ==
    /\ (IsSome(r.owner) => Unwrap(r.owner) = own)
    /\ r.matcher.type = "simple"
    /\ starts_with(prepare_command(cmd, get_pattern(r), r.matcher), get_pattern(r))

\* The rules of config that match the command and owner at hand.
MatchingRules ==
    {i \in 1..Len(config) : RuleMatches(Unwrap(command), Unwrap(owner), config[i])}

\* C1: match_command is first-match-wins: it returns the matching rule of
\* lowest index, and none exactly when no rule matches.
C1_FirstMatchWins ==
    pc = "matched" =>
        IF MatchingRules = {} THEN matched = None
        ELSE matched = Some(Min(MatchingRules))

\* C1 witness: two rules match and the earlier one was returned.
C1_Witness ==
    /\ pc = "matched"
    /\ {1, 2} \subseteq MatchingRules
    /\ config[1] # config[2]
    /\ matched = Some(1)

\* A rule of kind "simple" with strip_path true and a match_string that first
\* occurs in the command after a prefix, at 0-based index k > 0.
StripAfterPrefix(cmd, r, k) ==
    /\ r.matcher.type = "simple"
    /\ r.matcher.strip_path = Some(TRUE)
    /\ IsSome(r.matcher.match_string)
    /\ find(cmd, get_pattern(r)) = Some(k)
    /\ k > 0

\* C2 as written: in Scenario B the rule does not match; with strip_path
\* true a match_string behind a path prefix leaves the command unmodified
\* and the rule unmatched.
C2_ScenarioBNoMatch ==
    (pc = "matched" /\ config = <<ScenarioBRule>> /\ command = Some(ScenarioBCommand))
        => /\ strip_path_from_command(ScenarioBCommand, ScenarioBPattern) = ScenarioBCommand
           /\ matched = None

\* C2 amended: with strip_path true a match_string that does not begin with
\* whitespace and occurs behind a path prefix is found, the command is cut to
\* start at its first occurrence, and the prefix check succeeds: the rule is
\* returned unless its owner filter fails or an earlier rule matches.  In
\* Scenario B the rule matches.
C2_StripFindsPattern ==
    pc = "matched" =>
        /\ \A i \in 1..Len(config) : \A k \in 1..Len(Unwrap(command)) :
             LET cmd == Unwrap(command)
                 r == config[i]
                 pat == get_pattern(r)
             IN  (StripAfterPrefix(cmd, r, k) /\ pat # <<>> /\ pat[1] \notin Whitespace)
                     => /\ prepare_command(cmd, pat, r.matcher) = SliceFrom(cmd, k)
                        /\ (IsSome(r.owner) => Unwrap(r.owner) = Unwrap(owner))
                             => (IsSome(matched) /\ Unwrap(matched) <= i)
        /\ (config = <<ScenarioBRule>> /\ command = Some(ScenarioBCommand))
             => matched = Some(1)

\* C2 witness: Scenario B has been matched.
C2_Witness ==
    /\ pc = "matched"
    /\ config = <<ScenarioBRule>>
    /\ command = Some(ScenarioBCommand)
    /\ StripAfterPrefix(ScenarioBCommand, ScenarioBRule, 9)
    /\ matched = Some(1)

\* C9: a rule whose matcher kind is not exactly "simple" is never returned.
C9_NonSimpleNeverReturned ==
    pc = "matched" =>
        \A i \in 1..Len(config) :
            config[i].matcher.type # "simple" => matched # Some(i)

\* C9 witness: a rule of kind "Simple" whose owner filter passes and whose
\* pattern is a prefix of the command was not returned.
C9_Witness ==
    /\ pc = "matched"
    /\ Len(config) = 1
    /\ config[1].matcher.type = "Simple"
    /\ (IsSome(config[1].owner) => config[1].owner = owner)
    /\ match_simple(Unwrap(command), get_pattern(config[1]), config[1].matcher)
    /\ Unwrap(command) # <<>>
    /\ matched = None

\* C10: a rule with an owner is never returned for a process whose owner is
\* not exactly that string; a rule without owner that matches by kind and
\* command is returned for every owner, unless an earlier rule is.
C10_OwnerFilter ==
    pc = "matched" =>
        \A i \in 1..Len(config) :
            LET r == config[i]
            IN  /\ (IsSome(r.owner) /\ Unwrap(r.owner) # Unwrap(owner))
                     => matched # Some(i)
                /\ (/\ r.owner = None
                    /\ r.matcher.type = "simple"
                    /\ match_simple(Unwrap(command), get_pattern(r), r.matcher))
                     => (IsSome(matched) /\ Unwrap(matched) <= i)

\* C10 witness: a "simple" rule of owner "Alice" whose pattern is a prefix of
\* the command was not returned for a process of owner "alice".
C10_Witness ==
    /\ pc = "matched"
    /\ Len(config) = 1
    /\ config[1].owner = Some("Alice")
    /\ owner = Some("alice")
    /\ config[1].matcher.type = "simple"
    /\ match_simple(Unwrap(command), get_pattern(config[1]), config[1].matcher)
    /\ matched = None

(***************************************************************************)
(* Properties of the detection loop (Spec).                                *)
(***************************************************************************)
\* C3 as written: an enumeration of /proc, failed or not, is called only
\* after a sleep (or the start) that follows the previous enumeration.
C3_SleepBetweenScans == [][(ScanOk \/ ScanErr) => slept]_vars

\* C4: the pids dispatched in a cycle are exactly current \ previous, with
\* previous the snapshot of the last successful scan: no pid of that
\* snapshot is dispatched, present or gone.
C4_DispatchedIsDiff ==
    /\ pc = "dispatch" =>
         /\ previous_pids = prevScan
         /\ dispatched \cup added = current_pids \ prevScan
         /\ dispatched \cap added = {}
    /\ pc = "sleep" => dispatched = current_pids \ prevScan
    /\ pc \in {"dispatch", "sleep"} => dispatched \cap prevScan = {}

\* C4 witness: a cycle that found a pid of the previous snapshot again, lost
\* another one or found a new one, and dispatched the new ones only.
C4_Witness ==
    /\ pc = "sleep"
    /\ prevScan \cap current_pids # {}
    /\ dispatched # {}
    /\ dispatched = current_pids \ prevScan

\* C5 as written: the priority-set call is issued at most once in the
\* lifetime of a process.
C5_AtMostOneCall == readjusted = {}

\* C6 as written: an Ok snapshot holds every pid that has a directory under
\* /proc at the time of the scan.
C6_NoPartialSnapshot == [][ScanOk => Visible \subseteq current_pids']_vars

\* The process read in the last Dispatch runs under uids that have no entry
\* in the user database.
SeenUnmapped ==
    /\ IsSome(seen)
    /\ ~IsSome(Passwd[Unwrap(seen).ruid])
    /\ ~IsSome(Passwd[Unwrap(seen).euid])

\* C7 as written: a process whose uid has no entry in the user database has
\* no owner and is matched against no rule.
C7_UnmappedUidHasNoOwner == SeenUnmapped => (owner = None /\ matched = None)

\* C8 as written: the owner is the name of the effective uid.
C8_OwnerIsEffectiveUser ==
    (IsSome(seen) /\ IsSome(owner) /\ IsSome(Passwd[Unwrap(seen).euid]))
        => owner = Passwd[Unwrap(seen).euid]

\* C8 amended: the owner is the name the user database holds for the REAL
\* uid of the process, also when the effective uid differs, and a rule with
\* an owner is matched on that name.
C8_OwnerIsRealUser ==
    (IsSome(seen) /\ IsSome(owner) /\ IsSome(Passwd[Unwrap(seen).ruid]))
        => /\ owner = Passwd[Unwrap(seen).ruid]
           /\ IsSome(matched) =>
                (IsSome(config[Unwrap(matched)].owner)
                    => config[Unwrap(matched)].owner = Passwd[Unwrap(seen).ruid])

\* C8 witness: a set-uid-root program run by alice was matched by the rule
\* of owner "alice".
C8_Witness ==
    /\ IsSome(seen)
    /\ Unwrap(seen).ruid = 1000
    /\ Unwrap(seen).euid = 0
    /\ owner = Some("alice")
    /\ matched = Some(1)
    /\ config[1].owner = Some("alice")

(***************************************************************************)
(* Pattern resolution and command preparation (SpecMatch).                 *)
(***************************************************************************)
\* The pattern as the specification words it: the match_string verbatim
\* when there is one, the binary path and exactly one space otherwise.
\* strip_path has no part in it.
ResolvedPattern(r) ==
    IF r.matcher.match_string # None
    THEN r.matcher.match_string[1]
    ELSE Append(r.bin, " ")

\* The rule is of kind "simple" and its owner filter lets the owner pass.
Eligible(own, r) ==
    /\ r.matcher.type = "simple"
    /\ (r.owner = None \/ r.owner = Some(own))

\* C11: the pattern of every rule is its match_string verbatim when it has
\* one and its binary path followed by one space otherwise, whatever its
\* strip_path; a rule that is alone and eligible matches exactly when the
\* prepared command starts with that pattern.
C11_PatternResolution ==
    pc = "matched" =>
        /\ \A i \in 1..Len(config) : get_pattern(config[i]) = ResolvedPattern(config[i])
        /\ (Len(config) = 1 /\ Eligible(Unwrap(owner), config[1])) =>
             (matched = Some(1) <=>
                starts_with(prepare_command(Unwrap(command), ResolvedPattern(config[1]),
                                            config[1].matcher),
                            ResolvedPattern(config[1])))

\* C11 witness: the command "aa" is not matched by a first rule without
\* match_string (pattern "a ") and is matched by a second rule whose
\* match_string is "a" (no space appended).
C11_Witness ==
    /\ pc = "matched"
    /\ Len(config) = 2
    /\ config[1].matcher.match_string = None
    /\ config[1].bin = <<"a">>
    /\ config[2].matcher.match_string = Some(<<"a">>)
    /\ Eligible(Unwrap(owner), config[1])
    /\ command = Some(<<"a", "a">>)
    /\ matched = Some(2)

\* The pattern occurs in cmd at the 0-based index k.
OccursAt(cmd, pattern, k) ==
    /\ k + Len(pattern) <= Len(cmd)
    /\ \A i \in 1..Len(pattern) : cmd[k + i] = pattern[i]

\* t is s without its leading whitespace.
IsTrimmed(s, t) ==
    \E j \in 0..Len(s) :
        /\ \A i \in 1..j : s[i] \in Whitespace
        /\ j < Len(s) => s[j + 1] \notin Whitespace
        /\ t = SubSeq(s, j + 1, Len(s))

\* prepared is what the specification says of the command cmd under rule r.
IsPrepared(cmd, r, prepared) ==
    LET pattern == get_pattern(r)
        occurrences == {k \in 0..Len(cmd) : OccursAt(cmd, pattern, k)}
    IN  IF r.matcher.strip_path # Some(TRUE) \/ occurrences = {}
        THEN prepared = cmd
        ELSE LET first == CHOOSE k \in occurrences : \A o \in occurrences : k <= o
             IN  IsTrimmed(SubSeq(cmd, first + 1, Len(cmd)), prepared)

\* C12: the prepared command is the command itself when strip_path is false
\* or unset, or when the pattern does not occur in it; with strip_path true
\* it is the suffix that starts at the first occurrence of the pattern,
\* without its leading whitespace.  A rule that is alone and eligible
\* matches exactly when a command so prepared starts with the pattern.
C12_PrepareCommand ==
    pc = "matched" =>
        /\ \A i \in 1..Len(config) :
             IsPrepared(Unwrap(command), config[i],
                        prepare_command(Unwrap(command), get_pattern(config[i]),
                                        config[i].matcher))
        /\ (Len(config) = 1 /\ Eligible(Unwrap(owner), config[1])) =>
             (matched = Some(1) <=>
                \E j \in 0..Len(Unwrap(command)) :
                    LET prepared == SubSeq(Unwrap(command), j + 1, Len(Unwrap(command)))
                    IN  /\ IsPrepared(Unwrap(command), config[1], prepared)
                        /\ starts_with(prepared, get_pattern(config[1])))

\* C12 witness: with strip_path true the pattern "a" occurs twice in " aa";
\* the command is cut at the first occurrence and the rule matches.
C12_Witness ==
    /\ pc = "matched"
    /\ Len(config) = 1
    /\ config[1].matcher.strip_path = Some(TRUE)
    /\ get_pattern(config[1]) = <<"a">>
    /\ command = Some(<<" ", "a", "a">>)
    /\ prepare_command(Unwrap(command), <<"a">>, config[1].matcher) = <<"a", "a">>
    /\ matched = Some(1)

(***************************************************************************)
(* Properties of the adjuster (SpecAdjust).                                *)
(***************************************************************************)
\* C13: an invocation of the adjuster calls setpriority exactly when it read
\* the current nice value and that value differs from the target: no call
\* and no change when the read failed or the values are equal, one call
\* with the pid and the target when they differ.
C13_CallIffReadAndDiffers ==
    \A i \in 1..Len(history) :
        LET h == history[i]
            target == config[1].nice
            readOk == h.fault \notin {"proc", "stat"}
        IN  /\ h.read = IF readOk THEN Some(h.before) ELSE None
            /\ h.call = IF readOk /\ h.before # target
                        THEN Some(<<1, target>>) ELSE None
            /\ h.call = None => h.after = h.before

\* C13 witness: a first invocation could not read the nice value and made
\* no call; the second read a value that differs and made the call.
C13_Witness ==
    /\ Len(history) = 2
    /\ history[1].fault = "stat"
    /\ history[1].call = None
    /\ history[2].read = Some(0)
    /\ config[1].nice = 10
    /\ history[2].call = Some(<<1, 10>>)
    /\ history[2].after = 10

\* C14 as written: when the first of two successive invocations with the
\* same target has changed the priority with success, the second makes no
\* call and changes nothing, whatever the configured target.
C14_SecondInvocationIdle ==
    (/\ Len(history) >= 2
     /\ history[1].call # None
     /\ history[1].ok
     /\ history[1].after # history[1].before)
        => (history[2].call = None /\ history[2].after = history[2].before)

(***************************************************************************)
(* Properties of the loop: dispatch, failures, events (Spec).              *)
(***************************************************************************)
\* A Dispatch step has just handled the pid lastPid.
Handled == pc = "dispatch" /\ lastPid # None

\* The rules that match the command and owner read by the last Dispatch:
\* none when either could not be read.
HandledRules ==
    IF command # None /\ owner # None THEN MatchingRules ELSE {}

\* C15: every pid of the diff set is handled once; the adjuster is invoked
\* for it, with the target of the first matching rule, when its command and
\* owner were read and a rule matches, and not at all otherwise.  Whatever
\* failed for a pid, the pids still pending can be handled, the cycle ends
\* with the whole diff set handled, and the loop goes on.
C15_PerPidContainment ==
    /\ pc \in {"scan", "dispatch", "sleep"}
    /\ Handled =>
         /\ lastPid[1] \in dispatched /\ lastPid[1] \notin added
         /\ IF HandledRules = {} THEN adj = None
            ELSE /\ adj # None
                 /\ adj[1].pid = lastPid[1]
                 /\ adj[1].target = config[Min(HandledRules)].nice
    /\ pc = "dispatch" =>
         /\ dispatched \cap added = {}
         /\ \A pid \in added : ENABLED Dispatch(pid)
         /\ added = {} => ENABLED EndDispatch
    /\ pc = "sleep" => (dispatched = current_pids \ prevScan /\ ENABLED Sleep)

\* C15 witness: in one cycle the adjustment of pid 1 failed, and pid 2 was
\* handled after it and adjusted to the target of the first matching rule.
C15_Witness ==
    /\ pc = "dispatch"
    /\ dispatched = {1, 2}
    /\ 1 \in failedAdj
    /\ lastPid = Some(2)
    /\ HandledRules = {1, 2}
    /\ adj # None
    /\ adj[1].call = Some(<<2, 10>>)
    /\ procs[2][1].nice = 10

\* C16: a pid whose adjustment failed (the read of the nice value or the
\* setpriority call) is in previous_pids when its cycle ends, and as long
\* as every later snapshot holds it, it is never pending, never handled and
\* never the subject of an adjuster invocation again.
C16_NoRetryAfterFailure ==
    /\ failedAdj \cap added = {}
    /\ pc = "sleep" => previous_pids = current_pids
    /\ pc \in {"scan", "sleep"} => failedAdj \subseteq previous_pids
    /\ pc \in {"dispatch", "sleep"} => (failedAdj \cap prevScan) \cap dispatched = {}
    /\ (Handled /\ adj # None) => adj[1].pid \notin (failedAdj \cap prevScan)

\* C16 witness: a later cycle is over; pid 1, whose adjustment failed in an
\* earlier cycle, was in both snapshots, still has the nice value 0, and was
\* not handled, while another pid was.
C16_Witness ==
    /\ pc = "sleep"
    /\ 1 \in failedAdj
    /\ 1 \in prevScan /\ 1 \in current_pids
    /\ procs[1] # None /\ procs[1][1].nice = 0
    /\ dispatched = {2}

\* C17: a failed enumeration does not end the loop and skips the cycle: no
\* pid is diffed or handled, no setpriority call is made, previous_pids is
\* unchanged, and the loop is at its scan again.
C17_ScanFailureSkipsCycle ==
    [][ScanErr =>
         /\ pc' = "scan"
         /\ previous_pids' = previous_pids
         /\ added' = {} /\ dispatched' = dispatched
         /\ lastPid' = None /\ adj' = None
         /\ procs' = procs
         /\ adjusted' = adjusted /\ readjusted' = readjusted]_vars

\* C17 witness: the enumeration has failed; the loop is at its scan with the
\* previous snapshot it had, and a process started since is not handled.
C17_Witness ==
    /\ pc = "scan"
    /\ log = <<Event("error", "error fetching running processes")>>
    /\ previous_pids = {1}
    /\ procs[2] # None
    /\ added = {} /\ dispatched = {}
    /\ lastPid = None

\* C20 as written: when the command and the owner of a handled pid were
\* read, the loop emits an event for the outcome of matching, also when no
\* rule matched.
C20_EventForBothOutcomes ==
    (Handled /\ command # None /\ owner # None) => log # <<>>

\* C20 amended: when the command and the owner of a handled pid were read,
\* the loop emits one debug event, before anything the adjuster logs, when a
\* rule matched, and no event at all when no rule matched.
C20_EventOnMatchOnly ==
    (Handled /\ command # None /\ owner # None) =>
        IF matched # None
        THEN /\ log # <<>>
             /\ log[1] = Event("debug", "matches config")
             /\ \A i \in 2..Len(log) : log[i] # Event("debug", "matches config")
        ELSE log = <<>>

\* C20 witness: command and owner of a pid were read, no rule matched, and
\* nothing was logged.
C20_Witness ==
    /\ Handled
    /\ command # None /\ owner # None
    /\ HandledRules = {}
    /\ matched = None
    /\ log = <<>>

(***************************************************************************)
(* Properties of the loader (SpecLoad).                                    *)
(***************************************************************************)
\* The index in process of the last rule that bears the name.
LastNamed(process, name) == Max(Named(process, name))

\* Rule a has the owner, nice and matcher of rule b.
SamePayload(a, b) ==
    a.owner = b.owner /\ a.nice = b.nice /\ a.matcher = b.matcher

\* The rules of local that bring a name that neither global nor an earlier
\* rule of local has.
NewRules(global, local) ==
    {j \in 1..Len(local) :
        Named(global, local[j].name) = {} /\ j = Min(Named(local, local[j].name))}

\* merged is the merge of global and local as the specification words it.
IsMerge(global, local, merged) ==
    /\ Len(merged) = Len(global) + Cardinality(NewRules(global, local))
    /\ \A i \in 1..Len(global) :
         /\ merged[i].name = global[i].name
         /\ merged[i].bin = global[i].bin
         /\ IF Named(local, global[i].name) # {} /\ i = Min(Named(global, global[i].name))
            THEN SamePayload(merged[i], local[LastNamed(local, global[i].name)])
            ELSE merged[i] = global[i]
    /\ \A j \in NewRules(global, local) :
         LET e == merged[Len(global) + Cardinality({n \in NewRules(global, local) : n <= j})]
         IN  /\ e.name = local[j].name
             /\ e.bin = local[j].bin
             /\ SamePayload(e, local[LastNamed(local, local[j].name)])

\* C18: Config::merge keeps the global rules at their positions with their
\* name and bin; a local rule whose name a rule of the merged list bears
\* overwrites the owner, nice and matcher of (the first) such rule; a local
\* rule with a new name is appended at the end; a global rule that no local
\* rule names is unchanged.
C18_MergeByName ==
    pc = "merged" => IsMerge(Unwrap(etc), Unwrap(Unwrap(home)[1].file), config)

\* C18 witness: global rules "x" and "y", local rules "y" and "z": "x" is
\* unchanged, "y" has kept its place and bin and taken the local owner, nice
\* and matcher, "z" is appended.
C18_Witness ==
    /\ pc = "merged"
    /\ Len(Unwrap(etc)) = 2 /\ Len(Unwrap(Unwrap(home)[1].file)) = 2
    /\ Unwrap(etc)[1].name = "x" /\ Unwrap(etc)[2].name = "y"
    /\ Unwrap(Unwrap(home)[1].file)[1].name = "y"
    /\ Unwrap(Unwrap(home)[1].file)[2].name = "z"
    /\ Len(config) = 3
    /\ config[1] = Unwrap(etc)[1]
    /\ config[2].name = "y" /\ config[2].bin = <<"g">> /\ config[2].nice = 5
    /\ config[3] = Unwrap(Unwrap(home)[1].file)[2]

\* C19 as written: the rule set that Config::load_all returns never holds
\* two rules of the same name, whatever the files hold.
C19_NamesUnique ==
    pc = "loaded" =>
        \A i, j \in 1..Len(config) : config[i].name = config[j].name => i = j

(***************************************************************************)
(* Matching with strip_path (SpecMatch).                                   *)
(***************************************************************************)
\* Rule r is of kind "simple", lets the owner pass and has strip_path true.
StripRule(own, r) ==
    Eligible(own, r) /\ r.matcher.strip_path = Some(TRUE)

\* The pattern of r occurs somewhere in cmd and does not begin with a
\* whitespace character (the empty pattern occurs in every command).
OccursUnspaced(cmd, r) ==
    LET pattern == get_pattern(r)
    IN  /\ \E k \in 0..Len(cmd) : OccursAt(cmd, pattern, k)
        /\ pattern = <<>> \/ pattern[1] \notin Whitespace

\* C21: an eligible rule with strip_path true matches a command exactly when
\* its pattern occurs in the command and does not begin with whitespace: the
\* rule that match_command returns, when it is such a rule, has that
\* property, and no such rule with that property is passed over.
C21_StripMatchIffOccurs ==
    pc = "matched" =>
        /\ (matched # None /\ StripRule(Unwrap(owner), config[matched[1]]))
               => OccursUnspaced(Unwrap(command), config[matched[1]])
        /\ \A i \in 1..Len(config) :
               (StripRule(Unwrap(owner), config[i]) /\ OccursUnspaced(Unwrap(command), config[i]))
                   => (matched # None /\ matched[1] <= i)

\* C21 witness: the pattern " a" of an eligible strip_path rule occurs in the
\* command "a a" and the rule does not match.
C21_Witness ==
    /\ pc = "matched"
    /\ Len(config) = 1
    /\ StripRule(Unwrap(owner), config[1])
    /\ get_pattern(config[1]) = <<" ", "a">>
    /\ command = Some(<<"a", " ", "a">>)
    /\ matched = None

(***************************************************************************)
(* The first cycle (Spec).                                                 *)
(***************************************************************************)
\* C22: previous_pids is empty from the start of the daemon until the first
\* cycle whose scan succeeds is over, and is only ever the last snapshot
\* scanned with success; so that first cycle dispatches every pid of its
\* snapshot, the adjuster is invoked for each of them that a rule matches,
\* and the cycle ends with all of them handled.
C22_FirstCycleDispatchesAll ==
    /\ pc \in {"scan", "sleep"} => previous_pids = current_pids
    /\ first_cycle =>
         /\ pc \in {"scan", "dispatch"} => previous_pids = {}
         /\ pc = "scan" => current_pids = {}
         /\ pc = "dispatch" =>
              (added \cup dispatched = current_pids /\ added \cap dispatched = {})
         /\ (Handled /\ HandledRules # {}) => (adj # None /\ adj[1].pid = lastPid[1])
         /\ pc = "sleep" => dispatched = current_pids

\* C22 witness: two processes were running before the first scan; the first
\* cycle has handled both, a rule matched each, and their nice value is
\* now the target.
C22_Witness ==
    /\ first_cycle
    /\ pc = "dispatch"
    /\ current_pids = {1, 2}
    /\ dispatched = {1, 2} /\ added = {}
    /\ adjusted = {1, 2}
    /\ procs[1][1].nice = 10 /\ procs[2][1].nice = 10

(***************************************************************************)
(* The command line of a process and the fallback pattern (SpecDispatch).  *)
(***************************************************************************)
\* The first argument in the raw command line: what precedes its first NUL.
Argv0(raw) ==
    LET end == Min({k \in 1..Len(raw) : raw[k] = NUL})
    IN  SubSeq(raw, 1, end - 1)

\* p is a prefix of s and is not s.
ProperPrefix(p, s) == Len(p) < Len(s) /\ SubSeq(s, 1, Len(p)) = p

\* Rule r is of kind "simple", lets the owner pass and has no match_string.
FallbackRule(own, r) == Eligible(own, r) /\ r.matcher.match_string = None

\* C23 as written: the command read for a pid is its raw command line with
\* every NUL turned into a space, so it ends with a space when there is an
\* argument; a process without arguments whose argv[0] is the binary path
\* of a rule without match_string matches it, and a process whose argv[0]
\* has that binary path as a proper prefix does not, unless strip_path is
\* true.
C23_FallbackPattern ==
    (Handled /\ command # None) =>
        LET raw == Unwrap(seen).cmdline
            cmd == Unwrap(command)
        IN  /\ Len(cmd) = Len(raw)
            /\ \A i \in 1..Len(raw) : cmd[i] = IF raw[i] = NUL THEN " " ELSE raw[i]
            /\ raw # <<>> => cmd[Len(cmd)] = " "
            /\ (owner # None /\ FallbackRule(Unwrap(owner), config[1])) =>
                 /\ raw = Append(config[1].bin, NUL) => matched = Some(1)
                 /\ (/\ raw # <<>>
                     /\ config[1].matcher.strip_path # Some(TRUE)
                     /\ ProperPrefix(config[1].bin, Argv0(raw)))
                        => matched = None

====
